---- MODULE Spec2Model ----
(***************************************************************************)
(* Model of the appointment-booking service                                *)
(* (src/src/appointments/appointments.service.ts).                         *)
(*                                                                         *)
(* Instants are integers in milliseconds.  Instant 0 stands for            *)
(* 2024-06-10T00:00:00.000Z, a Monday, so a calendar day is the integer    *)
(* instant \div MsPerDay and day 4 is Friday 2024-06-14, day 5 Saturday.   *)
(*                                                                         *)
(* A timestamp STRING is a record [k, wall, zone]:                         *)
(*   k = "iso"    the text YYYY-MM-DDTHH:mm:ss.sss followed by a zone      *)
(*                designator; wall is the written wall clock (ms), zone    *)
(*                the written designator in minutes east of UTC (0 is      *)
(*                written "Z", 240 is written "+04:00");                   *)
(*   k = "bad"    a text Date cannot parse;                                *)
(*   k = "absent" undefined or the empty string (both falsy).              *)
(* Strings are compared as the store compares them: character by           *)
(* character.                                                              *)
(***************************************************************************)
EXTENDS Integers, Sequences, FiniteSets, TLC

VARIABLES store,      \* the appointments collection: id -> document
          nextId,     \* the next ObjectId the store hands out
          last,       \* outcome of the last request: "ok" or the error kind
          inflight,   \* create requests suspended at their await
          now,        \* Date.now()
          serverTz,   \* system timezone of the server process (getTimezoneOffset minutes)
          avail,      \* the availability response served since the last write
                      \* request, with its arguments (NoResponse if none)
          call        \* the last application of a scheduling function, with
                      \* its arguments (NoCall if none)

vars == <<store, nextId, last, inflight, now, serverTz, avail, call>>

----------------------------------------------------------------------------
(* Bounds *)

MaxIds == 2          \* ObjectIds the store hands out
MaxTasks == 2        \* concurrent create requests

----------------------------------------------------------------------------
(* Time and strings *)

MsPerMinute == 60000
MsPerHour == 60 * MsPerMinute
MsPerDay == 24 * MsPerHour

At(day, h, m) == day * MsPerDay + h * MsPerHour + m * MsPerMinute

Absent == [k |-> "absent", wall |-> 0, zone |-> 0]
Bad == [k |-> "bad", wall |-> 0, zone |-> 0]
Iso(wall, zone) == [k |-> "iso", wall |-> wall, zone |-> zone]

\* Number.isNaN(new Date(s).getTime())
IsNaNDate(s) == s.k # "iso"

\* new Date(s).getTime() of a parseable string: the written wall clock minus
\* the written zone.
GetTime(s) == s.wall - s.zone * MsPerMinute

\* Date.prototype.toISOString: always the UTC wall clock, designator Z.
ToISOString(ms) == Iso(ms, 0)

\* Rank of the designator's first differing characters: '+' (43) < '-' (45)
\* < 'Z' (90); two numeric designators of one sign compare by their digits.
ZoneRank(zone) == IF zone = 0 THEN 100000
                  ELSE IF zone > 0 THEN zone
                  ELSE 10000 - zone

\* The store's $lt on two string fields: lexicographic order of the texts.
\* The first 23 characters are fixed-width digits, so they order as wall.
StrLt(a, b) == \/ a.wall < b.wall
               \/ a.wall = b.wall /\ ZoneRank(a.zone) < ZoneRank(b.zone)

\* toISOString().split('T')[0] of an instant, as a day number
UtcYmd(ms) == ms \div MsPerDay

\* new Date(ymd + 'T00:00:00.000Z').getTime()
YmdMidnight(day) == day * MsPerDay

\* getFullYear/getMonth/getDate: the calendar date in the server's zone
SystemLocalYmd(ms) == (ms - serverTz * MsPerMinute) \div MsPerDay

\* Date.getDay of local noon of a calendar date (0 Sunday .. 6 Saturday);
\* day 0 is a Monday.
GetDay(day) == (day + 1) % 7

\* Number(x) with Number.isFinite: an offset is [fin, n]
Tz(n) == [fin |-> TRUE, n |-> n]
TzAbsent == [fin |-> FALSE, n |-> 0]
EffectiveTzOffset(tz) == IF tz.fin THEN tz.n ELSE 0

----------------------------------------------------------------------------
(* Scheduling functions *)

SERVICE_DURATION_MINUTES ==
  [consultation |-> 15, treatment |-> 45, extraction |-> 45, prosthetics |-> 45]

ServiceKey == DOMAIN SERVICE_DURATION_MINUTES

getWorkingHours(dateUtc, tzOffsetMinutes) ==
  LET offsetMs == tzOffsetMinutes * MsPerMinute
      localDate == dateUtc - offsetMs
      day == GetDay(SystemLocalYmd(localDate))
  IN  IF day = 0 \/ day = 6
        THEN [startHour |-> 9, endHour |-> 13]
        ELSE [startHour |-> 9, endHour |-> 18]

\* local midnight expressed in UTC milliseconds
LocalMidnightUtcMs(dateUtc, tzOffsetMinutes) ==
  LET offsetMs == tzOffsetMinutes * MsPerMinute
  IN  YmdMidnight(UtcYmd(dateUtc - offsetMs)) + offsetMs

RECURSIVE SlotLoop(_, _, _, _)
RECURSIVE SlotLoop_Strict(_, _, _, _)

\* the loop with the test t + duration < endMs
SlotLoop_Strict(t, endMs, durationMinutes, slotMinutes) ==
  IF t + durationMinutes * MsPerMinute < endMs
    THEN <<ToISOString(t)>>
           \o SlotLoop_Strict(t + slotMinutes * MsPerMinute, endMs, durationMinutes,
                              slotMinutes)
    ELSE <<>>

SlotLoop(t, endMs, durationMinutes, slotMinutes) ==
  IF t + durationMinutes * MsPerMinute <= endMs
    THEN <<ToISOString(t)>>
           \o SlotLoop(t + slotMinutes * MsPerMinute, endMs, durationMinutes, slotMinutes)
    ELSE <<>>

\* generateSlots leaving out the grid points that are not after the clock
generateSlots_SkipPast(dateUtc, slotMinutes, durationMinutes, tzOffsetMinutes) ==
  LET wh == getWorkingHours(dateUtc, tzOffsetMinutes)
      localMidnightUtcMs == LocalMidnightUtcMs(dateUtc, tzOffsetMinutes)
      startMs == localMidnightUtcMs + wh.startHour * 60 * MsPerMinute
      endMs == localMidnightUtcMs + wh.endHour * 60 * MsPerMinute
  IN  SelectSeq(SlotLoop(startMs, endMs, durationMinutes, slotMinutes),
                LAMBDA iso : GetTime(iso) > now)

generateSlots(dateUtc, slotMinutes, durationMinutes, tzOffsetMinutes) ==
  LET wh == getWorkingHours(dateUtc, tzOffsetMinutes)
      localMidnightUtcMs == LocalMidnightUtcMs(dateUtc, tzOffsetMinutes)
      startMs == localMidnightUtcMs + wh.startHour * 60 * MsPerMinute
      endMs == localMidnightUtcMs + wh.endHour * 60 * MsPerMinute
  IN  SlotLoop(startMs, endMs, durationMinutes, slotMinutes)

\* The working window the booking validator computes for a start instant
DayWindow(startMs, tzOffsetMinutes) ==
  LET wh == getWorkingHours(startMs, tzOffsetMinutes)
      localMidnightUtcMs == LocalMidnightUtcMs(startMs, tzOffsetMinutes)
  IN  [dayStart |-> localMidnightUtcMs + wh.startHour * 60 * MsPerMinute,
       dayEnd |-> localMidnightUtcMs + wh.endHour * 60 * MsPerMinute]

OutsideWorkingHours(startMs, endMs, tzOffsetMinutes) ==
  LET w == DayWindow(startMs, tzOffsetMinutes)
  IN  startMs < w.dayStart \/ endMs > w.dayEnd

----------------------------------------------------------------------------
(* The store *)

\* appointmentModel.exists({_id: {$ne: id}, start: {$lt: endIso}, end: {$gt: startIso}});
\* exceptId = 0 is the query without the _id clause.
ExistsOverlapping(s, exceptId, startIso, endIso) ==
  \E i \in DOMAIN s :
     /\ i # exceptId
     /\ StrLt(s[i].start, endIso)
     /\ StrLt(startIso, s[i].end)

\* appointmentModel.create(doc) under a fresh id
Insert(s, id, doc) == [i \in DOMAIN s \cup {id} |-> IF i = id THEN doc ELSE s[i]]

\* findByIdAndDelete
Remove(s, id) == [i \in DOMAIN s \ {id} |-> s[i]]

----------------------------------------------------------------------------
(* Availability *)

\* A date argument is [k, day]: k = "ymd" a well-formed YYYY-MM-DD (its day
\* number), "bad" a text Date cannot parse, "absent" undefined or "".
Ymd(day) == [k |-> "ymd", day |-> day]
BadYmd == [k |-> "bad", day |-> 0]
AbsentYmd == [k |-> "absent", day |-> 0]

\* the [start, end] pairs of the appointments the day query fetches
getBusyIntervalsISO(s, dateUtc, tzOffsetMinutes) ==
  LET localMidnightUtcMs == LocalMidnightUtcMs(dateUtc, tzOffsetMinutes)
      dayStart == localMidnightUtcMs
      dayEnd == localMidnightUtcMs + 24 * 60 * MsPerMinute - 1
  IN  { [start |-> s[i].start, end |-> s[i].end] :
          i \in { j \in DOMAIN s : /\ StrLt(s[j].start, ToISOString(dayEnd))
                                   /\ StrLt(ToISOString(dayStart), s[j].end) } }

\* the grid points some fetched interval contains, and the intervals' starts
BusySlots_AddsStart(allSlots, busyIntervals) ==
  { allSlots[n] : n \in { m \in DOMAIN allSlots :
       \E interval \in busyIntervals :
          /\ GetTime(allSlots[m]) >= GetTime(interval.start)
          /\ GetTime(allSlots[m]) < GetTime(interval.end) } }
    \cup { interval.start : interval \in busyIntervals }

\* the grid points some fetched interval contains
BusySlots(allSlots, busyIntervals) ==
  { allSlots[n] : n \in { m \in DOMAIN allSlots :
       \E interval \in busyIntervals :
          /\ GetTime(allSlots[m]) >= GetTime(interval.start)
          /\ GetTime(allSlots[m]) < GetTime(interval.end) } }

\* Math.max(1, Math.ceil(durationMinutes / slotMinutes))
ChunksNeeded(durationMinutes, slotMinutes) ==
  LET c == (durationMinutes + slotMinutes - 1) \div slotMinutes
  IN  IF c < 1 THEN 1 ELSE c

\* the candidate starts that are not themselves in busySlots
FilterFree_StartOnly(serviceSpecificStarts, busySlots, chunksNeeded, slotMinutes) ==
  SelectSeq(serviceSpecificStarts, LAMBDA startIso : startIso \notin busySlots)

\* the candidate starts none of whose chunks is in busySlots
FilterFree(serviceSpecificStarts, busySlots, chunksNeeded, slotMinutes) ==
  SelectSeq(serviceSpecificStarts,
    LAMBDA startIso :
      \A i \in 0..(chunksNeeded - 1) :
        ToISOString(GetTime(startIso) + i * slotMinutes * MsPerMinute) \notin busySlots)

\* the filter of past times when the requested date is "today"
FilterPast(availableSlots, dateStr, effectiveTzOffset, nowMs) ==
  LET offsetMs == effectiveTzOffset * MsPerMinute
      todayClientLocal == UtcYmd(nowMs + offsetMs)
  IN  IF dateStr.day = todayClientLocal
        THEN SelectSeq(availableSlots, LAMBDA iso : GetTime(iso) > nowMs)
        ELSE availableSlots

getAvailabilityForDate(s, dateStr, service, tzOffsetMinutes, nowMs) ==
  IF dateStr.k # "ymd"
    THEN [kind |-> "InvalidInput", availableSlots |-> << >>, busySlots |-> {},
          workingSlots |-> << >>]
    ELSE
      LET date == YmdMidnight(dateStr.day)
          slotMinutes == 15
          durationMinutes == IF service # "" THEN SERVICE_DURATION_MINUTES[service] ELSE 45
          effectiveTzOffset == EffectiveTzOffset(tzOffsetMinutes)
          allSlots == generateSlots(date, slotMinutes, slotMinutes, effectiveTzOffset)
          busyIntervals == getBusyIntervalsISO(s, date, effectiveTzOffset)
          busySlots == BusySlots(allSlots, busyIntervals)
          serviceSpecificStarts ==
            generateSlots(date, slotMinutes, durationMinutes, effectiveTzOffset)
          chunksNeeded == ChunksNeeded(durationMinutes, slotMinutes)
          availableSlots ==
            FilterFree(serviceSpecificStarts, busySlots, chunksNeeded, slotMinutes)
      IN  [kind |-> "ok",
           availableSlots |-> FilterPast(availableSlots, dateStr, effectiveTzOffset, nowMs),
           busySlots |-> busySlots,
           workingSlots |-> allSlots]

----------------------------------------------------------------------------
(* Request handlers *)

Result(kind, s) == [kind |-> kind, store |-> s]

\* createAppointment up to its first await: the required-field test, the
\* parse of start and the working-hours test.  A missing field is "" (or
\* Absent for start).
CreateValidation(body) ==
  IF body.name = "" \/ body.phoneNumber = "" \/ body.service = ""
       \/ body.start.k = "absent"
    THEN "InvalidInput"
  ELSE IF IsNaNDate(body.start)
    THEN "InvalidInput"
  ELSE LET startMs == GetTime(body.start)
           endMs == startMs + SERVICE_DURATION_MINUTES[body.service] * MsPerMinute
       IN  IF OutsideWorkingHours(startMs, endMs, EffectiveTzOffset(body.tzOffset))
             THEN "OutOfWindow"
             ELSE "ok"

\* the document createAppointment passes to appointmentModel.create
NewDocument(body) ==
  LET startMs == GetTime(body.start)
      endMs == startMs + SERVICE_DURATION_MINUTES[body.service] * MsPerMinute
  IN  [name |-> body.name, phoneNumber |-> body.phoneNumber,
       service |-> body.service,
       start |-> ToISOString(startMs), end |-> ToISOString(endMs)]

\* createAppointment run without interruption against store s; id is the
\* ObjectId a created document receives
createAppointment(s, id, body) ==
  LET v == CreateValidation(body)
  IN  IF v # "ok" THEN Result(v, s)
      ELSE LET doc == NewDocument(body)
           IN  IF ExistsOverlapping(s, 0, doc.start, doc.end)
                 THEN Result("SlotBusy", s)
                 ELSE Result("ok", Insert(s, id, doc))

\* deleteAppointment without the test of what findByIdAndDelete returned
deleteAppointment_NoFoundTest(s, id) == Result("ok", Remove(s, id))

deleteAppointment(s, id) ==
  IF id \notin DOMAIN s
    THEN Result("NotFound", s)
    ELSE Result("ok", Remove(s, id))

\* findByIdAndUpdate(id, {$set: updateData}): the fields the body carries
\* replace the document's; tzOffset is not a schema path and is dropped.
SetFields(doc, u) ==
  [name |-> IF u.name # "" THEN u.name ELSE doc.name,
   phoneNumber |-> IF u.phoneNumber # "" THEN u.phoneNumber ELSE doc.phoneNumber,
   service |-> IF u.service # "" THEN u.service ELSE doc.service,
   start |-> IF u.start.k # "absent" THEN u.start ELSE doc.start,
   end |-> IF u.end.k # "absent" THEN u.end ELSE doc.end]

FindByIdAndUpdate(s, id, u) == [s EXCEPT ![id] = SetFields(s[id], u)]

updateAppointment(s, id, updateData) ==
  IF id \notin DOMAIN s
    THEN Result("NotFound", s)
  ELSE IF updateData.start.k # "absent"
    THEN IF IsNaNDate(updateData.start)
           THEN Result("InvalidInput", s)
           ELSE LET startMs == GetTime(updateData.start)
                    service == IF updateData.service # "" THEN updateData.service
                                                         ELSE s[id].service
                    endMs == startMs + SERVICE_DURATION_MINUTES[service] * MsPerMinute
                    tz == EffectiveTzOffset(updateData.tzOffset)
                IN  IF OutsideWorkingHours(startMs, endMs, tz)
                      THEN Result("OutOfWindow", s)
                    ELSE IF ExistsOverlapping(s, id, ToISOString(startMs), ToISOString(endMs))
                      THEN Result("SlotBusy", s)
                    ELSE Result("ok",
                           FindByIdAndUpdate(s, id,
                              [updateData EXCEPT !.end = ToISOString(endMs)]))
  ELSE Result("ok", FindByIdAndUpdate(s, id, updateData))

----------------------------------------------------------------------------
(* Requests the model issues *)

Body(name, phoneNumber, service, start, tzOffset) ==
  [name |-> name, phoneNumber |-> phoneNumber, service |-> service,
   start |-> start, tzOffset |-> tzOffset]

\* Days 4 and 5 are Friday 2024-06-14 and Saturday 2024-06-15.
ServiceInputs == {"consultation", "treatment"}

CreateBodies ==
  { Body("Ann", "555", "consultation", ToISOString(At(4, 9, 0)), TzAbsent),
    Body("Ann", "555", "treatment", ToISOString(At(4, 9, 0)), TzAbsent),
    \* Fri 09:15Z written with the designator +04:00
    Body("Ann", "555", "consultation", Iso(At(4, 13, 15), 240), Tz(0)),
    Body("Ann", "555", "treatment", Iso(At(4, 13, 15), 240), Tz(0)),
    \* Saturday close - 45 min, and 1 ms later
    Body("Ann", "555", "treatment", ToISOString(At(5, 12, 15)), Tz(0)),
    Body("Ann", "555", "treatment", ToISOString(At(5, 12, 15) + 1), Tz(0)),
    \* Friday close - 45 min of a client in UTC+9, and 1 ms later
    Body("Ann", "555", "treatment", ToISOString(At(4, 8, 15)), Tz(-540)),
    Body("Ann", "555", "treatment", ToISOString(At(4, 8, 15) + 1), Tz(-540)),
    \* Friday 1 ms before opening of a client in UTC-5
    Body("Ann", "555", "consultation", ToISOString(At(4, 14, 0) - 1), Tz(300)),
    \* a missing field, an unparseable start
    Body("", "555", "treatment", ToISOString(At(4, 9, 0)), Tz(0)),
    Body("Ann", "555", "treatment", Bad, Tz(0)) }

UpdateData(name, phoneNumber, service, start, tzOffset, end) ==
  [name |-> name, phoneNumber |-> phoneNumber, service |-> service,
   start |-> start, tzOffset |-> tzOffset, end |-> end]

UpdateBodies ==
  { \* Fri 09:00Z written with the designator +04:00, service kept
    UpdateData("", "", "", Iso(At(4, 13, 0), 240), TzAbsent, Absent),
    \* Fri 09:30 with a new service and a new name
    UpdateData("Bob", "", "treatment", ToISOString(At(4, 9, 30)), Tz(0), Absent),
    \* Fri close - 30 min for 45 minutes, an unparseable start
    UpdateData("", "", "treatment", ToISOString(At(4, 17, 30)), Tz(0), Absent),
    UpdateData("", "", "", Bad, Tz(0), Absent),
    \* no start: only service, only end
    UpdateData("", "", "treatment", Absent, TzAbsent, Absent),
    UpdateData("", "", "", Absent, TzAbsent, ToISOString(At(4, 12, 0))) }

ServerTimezones == {0, -420}     \* UTC, UTC+7

NoResponse == [called |-> FALSE]

NoCall == [fn |-> "none"]

----------------------------------------------------------------------------
(* Sequential service: every request runs to completion *)

Init ==
  /\ store = << >>
  /\ nextId = 1
  /\ last = "none"
  /\ inflight = << >>
  /\ now = At(4, 3, 0)
  /\ serverTz \in ServerTimezones
  /\ avail = NoResponse
  /\ call = NoCall

CreateAppointment(body) ==
  LET r == createAppointment(store, nextId, body)
  IN  /\ r.kind = "ok" => nextId <= MaxIds
      /\ store' = r.store
      /\ nextId' = IF r.kind = "ok" THEN nextId + 1 ELSE nextId
      /\ last' = r.kind
      /\ avail' = NoResponse
      /\ UNCHANGED <<inflight, now, serverTz, call>>

UpdateAppointment(id, updateData) ==
  LET r == updateAppointment(store, id, updateData)
  IN  /\ store' = r.store
      /\ last' = r.kind
      /\ avail' = NoResponse
      /\ UNCHANGED <<nextId, inflight, now, serverTz, call>>

DeleteAppointment(id) ==
  LET r == deleteAppointment(store, id)
  IN  /\ store' = r.store
      /\ last' = r.kind
      /\ avail' = NoResponse
      /\ UNCHANGED <<nextId, inflight, now, serverTz, call>>

Ids == 1..MaxIds

Next ==
  \/ \E body \in CreateBodies : CreateAppointment(body)
  \/ \E id \in Ids, u \in UpdateBodies : UpdateAppointment(id, u)
  \/ \E id \in Ids : DeleteAppointment(id)

Spec == Init /\ [][Next]_vars

----------------------------------------------------------------------------
(* Concurrent creates: a request is suspended at its await on the overlap  *)
(* query and resumed later; other requests run in between                  *)

\* createAppointment from entry to the await: a rejected request ends, an
\* accepted one is suspended holding the answer of the exists query
CreateBegin(task, body) ==
  LET v == CreateValidation(body)
  IN  /\ task \notin DOMAIN inflight
      /\ IF v # "ok"
           THEN /\ last' = v
                /\ UNCHANGED inflight
           ELSE LET doc == NewDocument(body)
                    req == [doc |-> doc,
                            overlapping |-> ExistsOverlapping(store, 0, doc.start, doc.end)]
                IN  /\ inflight' = [t \in DOMAIN inflight \cup {task} |->
                                      IF t = task THEN req ELSE inflight[t]]
                    /\ UNCHANGED last
      /\ avail' = NoResponse
      /\ UNCHANGED <<store, nextId, now, serverTz, call>>

\* ResumeCreate with the overlap query repeated atomically with the insert
ResumeCreate_Recheck(s, id, req) ==
  IF req.overlapping \/ ExistsOverlapping(s, 0, req.doc.start, req.doc.end)
    THEN Result("SlotBusy", s)
    ELSE Result("ok", Insert(s, id, req.doc))

\* createAppointment after the await: throw on a match, else insert
ResumeCreate(s, id, req) ==
  IF req.overlapping
    THEN Result("SlotBusy", s)
    ELSE Result("ok", Insert(s, id, req.doc))

CreateResume(task) ==
  /\ task \in DOMAIN inflight
  /\ LET r == ResumeCreate(store, nextId, inflight[task])
     IN  /\ r.kind = "ok" => nextId <= MaxIds
         /\ store' = r.store
         /\ nextId' = IF r.kind = "ok" THEN nextId + 1 ELSE nextId
         /\ last' = r.kind
  /\ inflight' = [t \in DOMAIN inflight \ {task} |-> inflight[t]]
  /\ avail' = NoResponse
  /\ UNCHANGED <<now, serverTz, call>>

Tasks == 1..MaxTasks

ConcBodies ==
  { Body("Ann", "555", "treatment", ToISOString(At(4, 9, 0)), TzAbsent),
    Body("Bob", "556", "consultation", Iso(At(4, 13, 15), 240), Tz(0)),
    Body("Ann", "555", "consultation", ToISOString(At(4, 9, 45)), Tz(0)),
    Body("Ann", "555", "treatment", ToISOString(At(5, 12, 15) + 1), Tz(0)),
    Body("Ann", "555", "treatment", Bad, Tz(0)) }

NextConc ==
  \/ \E task \in Tasks, body \in ConcBodies : CreateBegin(task, body)
  \/ \E task \in Tasks : CreateResume(task)
  \/ \E id \in Ids : DeleteAppointment(id)

SpecConc == Init /\ [][NextConc]_vars

----------------------------------------------------------------------------
(* The service with its clock and availability queries *)

\* response a answers the request (dateStr, service, tzOffsetMinutes)
SameRequest(a, dateStr, service, tzOffsetMinutes) ==
  /\ a.called
  /\ a.dateStr = dateStr
  /\ a.service = service
  /\ a.tzOffset = tzOffsetMinutes

\* The response is kept with its arguments, the clock reading nowMs it was
\* computed at, and firstMs, the clock reading of the first of the
\* consecutive responses to this same request.
GetAvailabilityForDate(dateStr, service, tzOffsetMinutes) ==
  LET r == getAvailabilityForDate(store, dateStr, service, tzOffsetMinutes, now)
  IN  /\ avail' = [called |-> TRUE, kind |-> r.kind,
                   dateStr |-> dateStr, service |-> service,
                   tzOffset |-> tzOffsetMinutes, nowMs |-> now,
                   firstMs |-> IF SameRequest(avail, dateStr, service, tzOffsetMinutes)
                                 THEN avail.firstMs ELSE now,
                   availableSlots |-> r.availableSlots,
                   busySlots |-> r.busySlots,
                   workingSlots |-> r.workingSlots]
      /\ last' = r.kind
      /\ UNCHANGED <<store, nextId, inflight, now, serverTz, call>>

\* the instants the clock is read at: Friday 12:00 in UTC+9, Friday 10:00Z
ClockInstants == {At(4, 3, 0), At(4, 10, 0)}

Tick ==
  /\ \E t \in ClockInstants :
       /\ t > now
       /\ \A u \in ClockInstants : u > now => t <= u
       /\ now' = t
  /\ UNCHANGED <<store, nextId, last, inflight, serverTz, avail, call>>

\* <<date, service, tzOffset>> of the availability requests
AvailQueries ==
  { <<Ymd(4), "consultation", Tz(0)>>,        \* Friday, UTC
    <<Ymd(4), "consultation", Tz(-540)>>,     \* Friday of a client in UTC+9
    <<Ymd(4), "treatment", Tz(300)>>,         \* Friday of a client in UTC-5
    <<Ymd(5), "", TzAbsent>>,                 \* Saturday, no service, no offset
    <<Ymd(5), "treatment", Tz(300)>>,         \* Saturday of a client in UTC-5
    <<BadYmd, "", Tz(0)>>,
    <<AbsentYmd, "treatment", TzAbsent>> }

AvailBodies ==
  { \* Friday 14:35Z, off the grid
    Body("Ann", "555", "consultation", ToISOString(At(4, 14, 35)), Tz(0)),
    \* Friday 11:00 of a client in UTC+9, Friday 09:30 of a client in UTC-5
    Body("Ann", "555", "consultation", ToISOString(At(4, 2, 0)), Tz(-540)),
    Body("Ann", "555", "consultation", ToISOString(At(4, 14, 30)), Tz(300)),
    \* 1 ms past Saturday close - 45 min
    Body("Ann", "555", "treatment", ToISOString(At(5, 12, 15) + 1), TzAbsent) }

AvailUpdateBodies ==
  { UpdateData("", "", "treatment", ToISOString(At(4, 9, 30)), Tz(0), Absent) }

NextAvail ==
  \/ \E body \in AvailBodies : CreateAppointment(body)
  \/ \E id \in Ids, u \in AvailUpdateBodies : UpdateAppointment(id, u)
  \/ \E id \in Ids : DeleteAppointment(id)
  \/ \E q \in AvailQueries : GetAvailabilityForDate(q[1], q[2], q[3])
  \/ Tick

SpecAvail == Init /\ [][NextAvail]_vars

----------------------------------------------------------------------------
(* The scheduling functions applied to drawn arguments *)

\* dateUtc of generateSlots: UTC midnight of Friday, Saturday and Sunday
SlotDates == {YmdMidnight(4), YmdMidnight(5), YmdMidnight(6)}
SlotMinutes == {5, 15, 30, 60}
\* 240 and 540 are the lengths of the two windows
DurationMinutes == {15, 45, 240, 241, 540, 541}
TzMinutes == {0, -540, 300}

GenerateSlots(dateUtc, slotMinutes, durationMinutes, tzOffsetMinutes) ==
  /\ call' = [fn |-> "generateSlots", dateUtc |-> dateUtc,
               slotMinutes |-> slotMinutes, durationMinutes |-> durationMinutes,
               tzOffsetMinutes |-> tzOffsetMinutes,
               slots |-> generateSlots(dateUtc, slotMinutes, durationMinutes,
                                       tzOffsetMinutes)]
  /\ UNCHANGED <<store, nextId, last, inflight, now, serverTz, avail>>

\* instants whose working window is resolved: Friday 17:15Z, Friday 23:30Z,
\* Saturday 00:30Z, Saturday 12:15Z, Sunday 20:00Z, Monday 02:00Z
WindowInstants ==
  {At(4, 17, 15), At(4, 23, 30), At(5, 0, 30), At(5, 12, 15), At(6, 20, 0), At(7, 2, 0)}

\* the window createAppointment and updateAppointment resolve for a start
ResolveWindow(startMs, tzOffsetMinutes) ==
  /\ call' = [fn |-> "getWorkingHours", dateUtc |-> startMs,
               tzOffsetMinutes |-> tzOffsetMinutes,
               wh |-> getWorkingHours(startMs, tzOffsetMinutes),
               window |-> DayWindow(startMs, tzOffsetMinutes)]
  /\ UNCHANGED <<store, nextId, last, inflight, now, serverTz, avail>>

NextSched ==
  \/ \E dateUtc \in SlotDates, slotMinutes \in SlotMinutes,
        durationMinutes \in DurationMinutes, tz \in TzMinutes :
        GenerateSlots(dateUtc, slotMinutes, durationMinutes, tz)
  \/ \E startMs \in WindowInstants, tz \in TzMinutes : ResolveWindow(startMs, tz)

SpecSched == Init /\ [][NextSched]_vars

----------------------------------------------------------------------------
(* Properties *)

StartMs(doc) == GetTime(doc.start)
EndMs(doc) == GetTime(doc.end)

\* the half-open intervals of two documents intersect
Overlap(a, b) == StartMs(a) < EndMs(b) /\ StartMs(b) < EndMs(a)

\* The working window of the client-local calendar date of an instant, as
\* the specification defines it: the date of the instant minus the offset,
\* Saturday and Sunday 09-13, every other day 09-18.
LocalDate(ms, tz) == (ms - tz * MsPerMinute) \div MsPerDay
IsWeekend(day) == GetDay(day) = 0 \/ GetDay(day) = 6
WindowOpen(ms, tz) == LocalDate(ms, tz) * MsPerDay + tz * MsPerMinute + 9 * MsPerHour
WindowClose(ms, tz) ==
  LocalDate(ms, tz) * MsPerDay + tz * MsPerMinute
    + (IF IsWeekend(LocalDate(ms, tz)) THEN 13 ELSE 18) * MsPerHour
InsideWindow(startMs, endMs, tz) ==
  startMs >= WindowOpen(startMs, tz) /\ endMs <= WindowClose(startMs, tz)

\* C1: no two persisted appointments A and B satisfy A.start < B.end and
\* B.start < A.end, in any state reached by create, update and delete
\* requests served one after the other.
C1_NoOverlap ==
  \A i \in DOMAIN store : \A j \in DOMAIN store : i # j => ~Overlap(store[i], store[j])

\* C2: every persisted appointment has end = start + duration(service) and
\* start < end.
C2_EndIsStartPlusDuration ==
  \A i \in DOMAIN store :
     /\ EndMs(store[i]) = StartMs(store[i])
                            + SERVICE_DURATION_MINUTES[store[i].service] * MsPerMinute
     /\ StartMs(store[i]) < EndMs(store[i])

\* C3: a create request that passed its overlap check before the await
\* inserts its document when it resumes, whatever was persisted in between;
\* two concurrent requests for overlapping intervals are then both
\* persisted (C3_DoubleBooked is reached).
C3_CheckedCreateInserts ==
  [][\A t \in DOMAIN inflight :
        (t \notin DOMAIN inflight' /\ ~inflight[t].overlapping)
          => /\ nextId \in DOMAIN store'
             /\ store'[nextId] = inflight[t].doc
             /\ last' = "ok"]_vars

\* two persisted appointments overlap although only creates and deletes ran,
\* and no request is left in flight
C3_DoubleBooked ==
  /\ inflight = << >>
  /\ \E i \in DOMAIN store : \E j \in DOMAIN store :
        i # j /\ Overlap(store[i], store[j])

\* a create body whose fields are present and whose start parses
WellFormed(body) ==
  /\ body.name # "" /\ body.phoneNumber # "" /\ body.service # ""
  /\ body.start.k = "iso"

CandStart(body) == GetTime(body.start)
CandEnd(body) == GetTime(body.start) + SERVICE_DURATION_MINUTES[body.service] * MsPerMinute

\* C4: a create whose candidate lies inside working hours is rejected with
\* SlotBusy exactly when some persisted appointment E has E.start < end and
\* E.end > start of the candidate, and a rejection leaves the store unchanged.
C4_SlotBusyIffOverlap ==
  [][\A body \in CreateBodies :
        ( /\ CreateAppointment(body)
          /\ WellFormed(body)
          /\ InsideWindow(CandStart(body), CandEnd(body), EffectiveTzOffset(body.tzOffset)) )
        => /\ (last' = "SlotBusy") <=>
                (\E i \in DOMAIN store :
                    /\ StartMs(store[i]) < CandEnd(body)
                    /\ EndMs(store[i]) > CandStart(body))
           /\ (last' = "SlotBusy") => (store' = store)]_vars

\* C5: create and update (with a start) reject with OutOfWindow exactly when
\* start < dayStart or start + duration(service) > dayEnd for the working
\* window of start's local date, and persist nothing on rejection.
C5_OutOfWindowIffOutside ==
  [][/\ \A body \in CreateBodies :
          (CreateAppointment(body) /\ WellFormed(body))
          => /\ (last' = "OutOfWindow") <=>
                  ~InsideWindow(CandStart(body), CandEnd(body),
                                EffectiveTzOffset(body.tzOffset))
             /\ (last' = "OutOfWindow") => (store' = store)
     /\ \A id \in DOMAIN store : \A u \in UpdateBodies :
          (UpdateAppointment(id, u) /\ u.start.k = "iso")
          => LET service == IF u.service # "" THEN u.service ELSE store[id].service
                 startMs == GetTime(u.start)
                 endMs == startMs + SERVICE_DURATION_MINUTES[service] * MsPerMinute
             IN  /\ (last' = "OutOfWindow") <=>
                       ~InsideWindow(startMs, endMs, EffectiveTzOffset(u.tzOffset))
                 /\ (last' = "OutOfWindow") => (store' = store)]_vars

\* C10: an update with a new start that lies inside working hours succeeds
\* and persists the new start and end when its interval overlaps no other
\* appointment (its own record does not count), and is rejected with
\* SlotBusy, every record unchanged, when it overlaps another appointment.
C10_MoveExcludesSelf ==
  [][\A id \in DOMAIN store : \A u \in UpdateBodies :
        (UpdateAppointment(id, u) /\ u.start.k = "iso")
        => LET service == IF u.service # "" THEN u.service ELSE store[id].service
               startMs == GetTime(u.start)
               endMs == startMs + SERVICE_DURATION_MINUTES[service] * MsPerMinute
               others == \E j \in DOMAIN store \ {id} :
                            /\ StartMs(store[j]) < endMs
                            /\ EndMs(store[j]) > startMs
           IN  InsideWindow(startMs, endMs, EffectiveTzOffset(u.tzOffset))
                 => /\ others => (last' = "SlotBusy" /\ store' = store)
                    /\ ~others => /\ last' = "ok"
                                  /\ StartMs(store'[id]) = startMs
                                  /\ EndMs(store'[id]) = endMs]_vars

\* C6: workingSlots has 36 entries when the requested date is Monday to
\* Friday and 16 when it is Saturday or Sunday, for every offset.
C6_WorkingSlotCount ==
  (avail.called /\ avail.kind = "ok")
    => Len(avail.workingSlots) = IF IsWeekend(avail.dateStr.day) THEN 16 ELSE 36

\* C7: when the requested date is the client's local date of the clock
\* reading (instant minus tzOffset), availableSlots holds no slot that
\* starts at or before the clock reading.
C7_NoPastSlotToday ==
  ( /\ avail.called /\ avail.kind = "ok"
    /\ avail.dateStr.day = LocalDate(avail.nowMs, EffectiveTzOffset(avail.tzOffset)) )
    => \A n \in DOMAIN avail.availableSlots :
          GetTime(avail.availableSlots[n]) > avail.nowMs

\* C8 as claimed: a second response to the same request with no write in
\* between repeats availableSlots, busySlots and workingSlots, whatever the
\* clock did in between.
C8_Idempotent ==
  [][(avail.called /\ avail'.called
        /\ SameRequest(avail, avail'.dateStr, avail'.service, avail'.tzOffset))
      => /\ avail'.availableSlots = avail.availableSlots
         /\ avail'.busySlots = avail.busySlots
         /\ avail'.workingSlots = avail.workingSlots]_vars

\* C8 amended: a second response to the same request with no write in
\* between repeats busySlots and workingSlots even when the clock advanced,
\* and repeats availableSlots when the clock reads the same at both calls.
C8_IdempotentUpToClock ==
  [][(avail.called /\ avail'.called
        /\ SameRequest(avail, avail'.dateStr, avail'.service, avail'.tzOffset))
      => /\ avail'.busySlots = avail.busySlots
         /\ avail'.workingSlots = avail.workingSlots
         /\ avail'.kind = avail.kind
         /\ (avail'.nowMs = avail.nowMs)
               => (avail'.availableSlots = avail.availableSlots)]_vars

\* the same request was answered again after the clock advanced, with
\* appointments in the store, and the answer lists working and busy slots
C8_RepeatedAfterTick ==
  /\ avail.called /\ avail.kind = "ok"
  /\ avail.firstMs < avail.nowMs
  /\ avail.busySlots # {}
  /\ Len(avail.availableSlots) < Len(avail.workingSlots)

\* C9: a delete or an update of an id that is not in the store fails with
\* NotFound and leaves the store unchanged, and an id that was handed out
\* and is no longer in the store never comes back.
C9_DeletedIsTerminal ==
  [][/\ \A id \in Ids \ DOMAIN store :
          ( \/ DeleteAppointment(id)
            \/ \E u \in UpdateBodies : UpdateAppointment(id, u) )
          => (last' = "NotFound" /\ store' = store)
     /\ \A id \in 1..(nextId - 1) :
          id \notin DOMAIN store => id \notin DOMAIN store']_vars

\* a request on a deleted id was answered NotFound while a later
\* appointment is persisted
C9_NotFoundAfterDelete ==
  /\ last = "NotFound"
  /\ \E d \in 1..(nextId - 1) : \E i \in DOMAIN store :
        d \notin DOMAIN store /\ d < i

\* C11: an update whose body carries no start leaves the stored start and
\* end of that appointment as they were, whatever else the body carries
\* (name, phoneNumber, service, tzOffset, end), and leaves every other
\* appointment unchanged.
C11_NoStartKeepsInterval ==
  [][\A id \in DOMAIN store : \A u \in UpdateBodies :
        (UpdateAppointment(id, u) /\ u.start.k = "absent")
        => /\ DOMAIN store' = DOMAIN store
           /\ store'[id].start = store[id].start
           /\ store'[id].end = store[id].end
           /\ \A j \in DOMAIN store \ {id} : store'[j] = store[j]]_vars

\* the instants of the client-local calendar day `day` under offset tz
LocalDayStart(day, tz) == day * MsPerDay + tz * MsPerMinute
LocalDayEnd(day, tz) == LocalDayStart(day, tz) + MsPerDay

\* C12: for every requested date D and every offset, each instant of
\* workingSlots has client-local date D and lies in D's working window
\* [startHour, endHour), and the appointments fetched for busy marking are
\* exactly those whose interval overlaps D's local day
\* [local midnight, local midnight + 24h).
C12_SlotsAndFetchOnRequestedDay ==
  (avail.called /\ avail.kind = "ok")
    => LET tz == EffectiveTzOffset(avail.tzOffset)
           D == avail.dateStr.day
           open == LocalDayStart(D, tz) + 9 * MsPerHour
           close == LocalDayStart(D, tz) + (IF IsWeekend(D) THEN 13 ELSE 18) * MsPerHour
       IN  /\ \A n \in DOMAIN avail.workingSlots :
                LET t == GetTime(avail.workingSlots[n])
                IN  /\ LocalDate(t, tz) = D
                    /\ open <= t /\ t < close
           /\ getBusyIntervalsISO(store, YmdMidnight(D), tz)
                = { [start |-> store[i].start, end |-> store[i].end] :
                      i \in { j \in DOMAIN store :
                                /\ StartMs(store[j]) < LocalDayEnd(D, tz)
                                /\ EndMs(store[j]) > LocalDayStart(D, tz) } }

\* C13: for every working window, slotMinutes and durationMinutes,
\* generateSlots returns a sequence that starts at the window's start, whose
\* consecutive elements differ by exactly slotMinutes (so it is strictly
\* ascending), whose every element t has t + durationMinutes <= windowEnd,
\* whose last element is maximal (one more step would pass windowEnd), and
\* that is empty only when durationMinutes exceeds the window's length.
C13_SlotSequence ==
  call.fn = "generateSlots"
    => LET w == DayWindow(call.dateUtc, call.tzOffsetMinutes)
           seq == call.slots
           d == call.durationMinutes * MsPerMinute
           step == call.slotMinutes * MsPerMinute
       IN  /\ seq # << >> => GetTime(seq[1]) = w.dayStart
           /\ \A n \in 1..(Len(seq) - 1) :
                 /\ GetTime(seq[n + 1]) - GetTime(seq[n]) = step
                 /\ GetTime(seq[n]) < GetTime(seq[n + 1])
           /\ \A n \in DOMAIN seq : GetTime(seq[n]) + d <= w.dayEnd
           /\ seq # << >> => GetTime(seq[Len(seq)]) + step + d > w.dayEnd
           /\ seq = << >> => d > w.dayEnd - w.dayStart

\* generateSlots returned several slots the last of which ends exactly at
\* the window's end
C13_LastSlotFitsExactly ==
  /\ call.fn = "generateSlots"
  /\ Len(call.slots) >= 2
  /\ GetTime(call.slots[Len(call.slots)]) + call.durationMinutes * MsPerMinute
       = DayWindow(call.dateUtc, call.tzOffsetMinutes).dayEnd

\* the today filter of response a was applied (the requested date is the
\* date the service takes for the client's today)
TodayFilterApplied(a) ==
  a.dateStr.day = UtcYmd(a.nowMs + EffectiveTzOffset(a.tzOffset) * MsPerMinute)

\* the duration a response was computed for: the service's, 45 without one
RequestedDuration(a) ==
  IF a.service # "" THEN SERVICE_DURATION_MINUTES[a.service] ELSE 45

\* C14: before the today filter, a grid point s is in availableSlots for
\* duration d (the requested service's, or 45 without a service) exactly
\* when s + d <= windowEnd and none of the ceil(d/15) grid points s, s+15,
\* ... is in busySlots; a grid point g is in busySlots exactly when some
\* fetched appointment has start <= g < end; availableSlots is ascending.
C14_AvailableIffChunksFree ==
  (avail.called /\ avail.kind = "ok" /\ ~TodayFilterApplied(avail))
    => LET tz == EffectiveTzOffset(avail.tzOffset)
           date == YmdMidnight(avail.dateStr.day)
           windowEnd == DayWindow(date, tz).dayEnd
           d == RequestedDuration(avail)
           chunks == IF d % 15 = 0 THEN d \div 15 ELSE d \div 15 + 1
           fetched == getBusyIntervalsISO(store, date, tz)
           available == { avail.availableSlots[n] : n \in DOMAIN avail.availableSlots }
       IN  /\ \A n \in DOMAIN avail.workingSlots :
                LET g == avail.workingSlots[n]
                    s == GetTime(g)
                IN  /\ (g \in avail.busySlots) <=>
                          (\E f \in fetched : GetTime(f.start) <= s /\ s < GetTime(f.end))
                    /\ (g \in available) <=>
                          /\ s + d * MsPerMinute <= windowEnd
                          /\ \A i \in 0..(chunks - 1) :
                                ToISOString(s + i * 15 * MsPerMinute) \notin avail.busySlots
           /\ available \subseteq { avail.workingSlots[n] : n \in DOMAIN avail.workingSlots }
           /\ \A n \in 1..(Len(avail.availableSlots) - 1) :
                 GetTime(avail.availableSlots[n]) < GetTime(avail.availableSlots[n + 1])

\* an unfiltered response for a 45-minute service in which a grid point is
\* free itself but not available because a later chunk of it is busy
C14_BlockedByLaterChunk ==
  /\ avail.called /\ avail.kind = "ok" /\ ~TodayFilterApplied(avail)
  /\ RequestedDuration(avail) = 45
  /\ avail.availableSlots # << >>
  /\ \E n \in DOMAIN avail.workingSlots :
        LET g == avail.workingSlots[n]
        IN  /\ g \notin avail.busySlots
            /\ ToISOString(GetTime(g) + 30 * MsPerMinute) \in avail.busySlots
            /\ \A k \in DOMAIN avail.availableSlots : avail.availableSlots[k] # g

\* C15: the working window resolved for an instant t and an offset depends
\* only on the client-local calendar date of t (09-13 when that date is a
\* Saturday or Sunday, else 09-18, counted from that date's local midnight)
\* and is the same whatever the server's system timezone is.
C15_WindowOfLocalDate ==
  call.fn = "getWorkingHours"
    => LET t == call.dateUtc
           tz == call.tzOffsetMinutes
       IN  /\ call.wh = [startHour |-> 9,
                         endHour |-> IF IsWeekend(LocalDate(t, tz)) THEN 13 ELSE 18]
           /\ call.window = [dayStart |-> WindowOpen(t, tz),
                             dayEnd |-> WindowClose(t, tz)]

\* C16: whatever creates and updates built the store (their starts need not
\* be grid points), every slot s of availableSlots returned for a service S
\* is such that no persisted appointment overlaps [s, s + duration(S)), and
\* a create for S at s with the same offset and no write in between is
\* rejected neither with SlotBusy nor with OutOfWindow.
C16_OfferedSlotIsBookable ==
  (avail.called /\ avail.kind = "ok" /\ avail.service # "")
    => \A n \in DOMAIN avail.availableSlots :
          LET body == Body("Ann", "555", avail.service, avail.availableSlots[n],
                           avail.tzOffset)
              r == createAppointment(store, nextId, body)
          IN  /\ \A i \in DOMAIN store :
                    ~( /\ StartMs(store[i]) < CandEnd(body)
                       /\ CandStart(body) < EndMs(store[i]) )
              /\ r.kind \notin {"SlotBusy", "OutOfWindow"}

\* a start on the 15-minute grid of its client-local day
GridAligned(startMs, tz) ==
  (startMs - LocalDayStart(LocalDate(startMs, tz), tz)) % (15 * MsPerMinute) = 0

\* C17: while an appointment that create persists for a grid-aligned start
\* s under an offset is in the store, every availability response for the
\* client-local date of s under that same offset, for any service, lists s
\* in busySlots and does not list s in availableSlots.
C17_BookedSlotShownBusy ==
  (avail.called /\ avail.kind = "ok")
    => \A i \in DOMAIN store :
          LET tz == EffectiveTzOffset(avail.tzOffset)
              asCreated == Body(store[i].name, store[i].phoneNumber, store[i].service,
                                store[i].start, avail.tzOffset)
          IN  ( /\ CreateValidation(asCreated) = "ok"
                /\ NewDocument(asCreated) = store[i]
                /\ GridAligned(StartMs(store[i]), tz)
                /\ avail.dateStr.day = LocalDate(StartMs(store[i]), tz) )
              => /\ store[i].start \in avail.busySlots
                 /\ \A n \in DOMAIN avail.availableSlots :
                       avail.availableSlots[n] # store[i].start

\* C18: in every availability response busySlots is a subset of
\* workingSlots, availableSlots is a subset of workingSlots, and no slot is
\* in both availableSlots and busySlots.
C18_SlotSetsNested ==
  (avail.called /\ avail.kind = "ok")
    => LET working == { avail.workingSlots[n] : n \in DOMAIN avail.workingSlots }
           available == { avail.availableSlots[n] : n \in DOMAIN avail.availableSlots }
       IN  /\ avail.busySlots \subseteq working
           /\ available \subseteq working
           /\ available \cap avail.busySlots = {}

\* a response with busy and available slots, computed while an appointment
\* that starts off the grid is among those of the requested day
C18_OffGridBookingFetched ==
  /\ avail.called /\ avail.kind = "ok"
  /\ avail.busySlots # {}
  /\ avail.availableSlots # << >>
  /\ \E i \in DOMAIN store :
        /\ store[i].start \notin { avail.workingSlots[n] : n \in DOMAIN avail.workingSlots }
        /\ \E g \in avail.busySlots :
              StartMs(store[i]) < GetTime(g) /\ GetTime(g) < EndMs(store[i])

\* the text Date.prototype.toISOString gives for the instant the text denotes
Canonical(str) == str.k = "iso" /\ str = ToISOString(GetTime(str))

\* C19: after any successful create or update, the persisted start and end
\* of every appointment are the toISOString text of their instants, so the
\* store's string comparison of two records' fields orders them as their
\* instants are ordered.
C19_PersistedTextCanonical ==
  /\ \A i \in DOMAIN store : Canonical(store[i].start) /\ Canonical(store[i].end)
  /\ \A i \in DOMAIN store : \A j \in DOMAIN store :
        /\ StrLt(store[i].start, store[j].end) <=> StartMs(store[i]) < EndMs(store[j])
        /\ StrLt(store[i].start, store[j].start) <=> StartMs(store[i]) < StartMs(store[j])

====
